---- MODULE Spec2Model ----
(***************************************************************************)
(* alertbot.py: a poll loop that runs three health checks against a        *)
(* Lighthouse node, collects problem strings in the list `errors`, sends   *)
(* them as one Telegram message, sleeps, and repeats; a supervisor loop    *)
(* around asyncio.run(main()) restarts the poll loop after any Exception.  *)
(*                                                                         *)
(* Strings of the program are TLA+ strings.  A configuration value is the  *)
(* string configparser returns, or Missing when the key is absent.         *)
(* Memory percentages are in tenths of a percent (97.3 is 973).            *)
(***************************************************************************)
EXTENDS Integers, Sequences, FiniteSets, TLC

(* ------------------------------ bounds --------------------------------- *)

\* peer counts served by the node range over 0..MaxPeers
MaxPeers == 4
\* the supervisor's restart counter saturates here
MaxRestarts == 2

(* ------------------------- program constants --------------------------- *)

\* `mem_percent > 95.0`, in tenths of a percent
MemThreshold == 950
\* `time.sleep(10)` of the supervisor
BackoffSeconds == 10

(* ------------------------------ strings -------------------------------- *)

\* the key is absent from config.ini: config[section][key] raises KeyError
Missing == "<missing>"

\* the largest number a numeral of the model denotes
MaxNum == 100

IsNumeral(s) == \E n \in 0..MaxNum : ToString(n) = s

\* int(s) of a numeral string
ParseInt(s) == CHOOSE n \in 0..MaxNum : ToString(n) = s

RECURSIVE Digits(_)
\* the characters of str(n), as digit values
Digits(n) == IF n < 10 THEN <<n>> ELSE Append(Digits(n \div 10), n % 10)

RECURSIVE SeqGreater(_, _)
\* Python's `a > b` on two strings: lexicographic, a proper prefix is smaller
SeqGreater(a, b) ==
    IF a = <<>> THEN FALSE
    ELSE IF b = <<>> THEN TRUE
    ELSE IF Head(a) # Head(b) THEN Head(a) > Head(b)
    ELSE SeqGreater(Tail(a), Tail(b))

\* `x > y` for two numeral strings
StrGreater(x, y) == SeqGreater(Digits(ParseInt(x)), Digits(ParseInt(y)))

\* f"{mem_percent}" of a float held in tenths: 973 is "97.3", 960 is "96.0"
FloatStr(t) == ToString(t \div 10) \o "." \o ToString(t % 10)

(* ----------------------------- exceptions ------------------------------ *)

NoExc == [type |-> "", msg |-> ""]

Exc(t, m) == [type |-> t, msg |-> m]

\* the classes below derive from Exception; the others only from BaseException
ExceptionSubclasses ==
    {"Exception", "KeyError", "ValueError", "TypeError", "NameError",
     "JSONDecodeError", "ConnectionError", "NetworkError"}

\* `except Exception as e` catches e
CatchesException(e) == e.type \in ExceptionSubclasses

(* ------------------------------ problems ------------------------------- *)

\* one entry of `errors`: the string, tagged with the statement that built it
Problem(k, t) == [kind |-> k, text |-> t]


(* ----------------------------- configuration --------------------------- *)

\* a config.ini the operator wrote correctly, with the given thresholds
GoodConfig(tol, lo, hi) ==
    [api_token |-> "123:abc", chat_id |-> "42", poll_interval_seconds |-> "60",
     endpoint |-> "http://localhost:5052", sync_tolerance |-> tol,
     min_peer_count |-> lo, max_peer_count |-> hi]

BaseConfig == GoodConfig("8", "1", "3")

GoodConfigs == {BaseConfig, GoodConfig("8", "2", "2")}

\* config.ini files with one key absent or ill-formed
FaultyConfigs ==
    {[BaseConfig EXCEPT !.api_token = Missing],
     [BaseConfig EXCEPT !.api_token = "\"123:abc\""],
     [BaseConfig EXCEPT !.chat_id = Missing],
     [BaseConfig EXCEPT !.poll_interval_seconds = Missing],
     [BaseConfig EXCEPT !.poll_interval_seconds = "abc"],
     [BaseConfig EXCEPT !.endpoint = Missing],
     [BaseConfig EXCEPT !.sync_tolerance = Missing],
     [BaseConfig EXCEPT !.min_peer_count = "abc"]}

Configs == GoodConfigs \cup FaultyConfigs

\* the value of `config` before load_config() has run
NoConfig == GoodConfig(Missing, Missing, Missing)

\* the tokens of the model whose first character is `"`
QuotedTokens == {"\"123:abc\""}

\* a test that looks for the apostrophe instead: startswith("'")
StartsWithApostrophe(s) == s \in {"'123:abc'"}

\* api_token.startswith('"')
StartsWithQuote(s) == s \in QuotedTokens

(* ------------------------------ responses ------------------------------ *)

\* What requests.get() produced: a raised transport error, or a response with
\* a status code and a body.  body is "json" (an object with the documented
\* fields), "nofield" (JSON without them) or "garbage" (not JSON).

\* requests.Response.ok: raise_for_status() does not raise
Ok(r) == r.status < 400

TransportError(d) == [transport |-> TRUE, status |-> 0, body |-> "", data |-> d]

Response(s, b, d) == [transport |-> FALSE, status |-> s, body |-> b, data |-> d]

\* no request has been made in this cycle
NoHealth == [transport |-> FALSE, status |-> 0, body |-> "", data |-> 0]

MemValues == {MemThreshold - 1, MemThreshold, MemThreshold + 1, 973}

HealthResponses ==
    {TransportError(0), Response(500, "garbage", 0), Response(200, "garbage", 0),
     Response(200, "nofield", 0)}
    \cup {Response(200, "json", m) : m \in MemValues}
    \cup {Response(206, "json", MemThreshold + 1)}

\* a JSON number or a JSON string holding the numeral of n
JsonInt(n) == [isStr |-> FALSE, n |-> n]
JsonStr(n) == [isStr |-> TRUE, n |-> n]

SyncData(d, s, o, e) ==
    [sync_distance |-> d, is_syncing |-> s, is_optimistic |-> o, el_offline |-> e]

\* a fully synced node; Lighthouse serves the distance as a string, the
\* documented interface of the endpoint as a number
SyncedData == SyncData(JsonStr(0), FALSE, FALSE, FALSE)
SyncedDataInt == SyncData(JsonInt(0), FALSE, FALSE, FALSE)

NoSync == [transport |-> FALSE, status |-> 0, body |-> "", data |-> SyncedData]

Distances == {JsonInt(0), JsonInt(9), JsonStr(0), JsonStr(9), JsonStr(10)}

SyncResponses ==
    {TransportError(SyncedData), Response(500, "garbage", SyncedData),
     Response(206, "json", SyncedData), Response(200, "garbage", SyncedData),
     Response(200, "nofield", SyncedData)}
    \cup {Response(200, "json", SyncData(d, s, o, e)) :
             d \in Distances, s \in BOOLEAN, o \in BOOLEAN, e \in BOOLEAN}

NoPeers == [transport |-> FALSE, status |-> 0, body |-> "", data |-> 0]

PeerResponses ==
    {TransportError(0), Response(500, "garbage", 0), Response(200, "garbage", 0)}
    \cup {Response(200, "json", p) : p \in 0..MaxPeers}

\* what a healthy, fully synced node serves
HealthyHealth == {Response(200, "json", m) : m \in {MemThreshold - 1, MemThreshold}}
HealthySync == {Response(200, "json", SyncedData), Response(200, "json", SyncedDataInt)}
HealthyPeers ==
    {r \in PeerResponses :
        /\ r.status = 200 /\ r.body = "json"
        /\ \A c \in GoodConfigs :
              /\ ParseInt(c.min_peer_count) <= r.data
              /\ r.data <= ParseInt(c.max_peer_count)}

(* ------------------------------- checks -------------------------------- *)

\* what a check leaves behind: the caller's list, and the exception it raised
Returned(errs) == [errors |-> errs, raised |-> NoExc]
Raised(errs, e) == [errors |-> errs, raised |-> e]

\* requests.get(f"{config['lighthouse']['endpoint']}...") raises before any
\* response exists: the key is absent, or the transport failed
GetRaises(config, r) == config.endpoint = Missing \/ r.transport

GetException(config, r) ==
    IF config.endpoint = Missing THEN Exc("KeyError", "'endpoint'")
    ELSE Exc("ConnectionError", "connection failed")

\* lh_health.json()["data"]["sys_virt_mem_percent"]
JsonException(r, field) ==
    IF r.body = "garbage" THEN Exc("JSONDecodeError", "Expecting value")
    ELSE Exc("KeyError", field)

\* what lines 27-34 append to the list that `errors` names inside
\* check_lighthouse_health
HealthAppends(lh_health) ==
    IF Ok(lh_health)
    THEN IF lh_health.data > MemThreshold
         THEN <<Problem("memory",
                    "Memory usage at " \o FloatStr(lh_health.data) \o "%")>>
         ELSE <<>>
    ELSE <<Problem("health_status",
               "Error from /lighthouse/health: " \o ToString(lh_health.status))>>

\* check_lighthouse_health: line 22, `errors = []`, rebinds the parameter to
\* a new list, so HealthAppends(lh_health) goes to a list that dies with the
\* call and the caller's list is returned as it came
check_lighthouse_health(config, errors, lh_health) ==
    IF GetRaises(config, lh_health)
    THEN Raised(errors, GetException(config, lh_health))
    ELSE IF Ok(lh_health) /\ lh_health.body # "json"
    THEN Raised(errors, JsonException(lh_health, "'sys_virt_mem_percent'"))
    ELSE Returned(errors)

\* f"{sync_distance}" of a JSON number or string
DistanceStr(d) == ToString(d.n)

\* `sync_distance > sync_tolerance`: sync_tolerance is the configuration's
\* string; a JSON string compares lexicographically, a JSON number raises
DistanceCompareRaises(d) == ~d.isStr

DistanceGreater(d, sync_tolerance) == StrGreater(DistanceStr(d), sync_tolerance)

\* a test written like the other two checks: `not node_status.ok`
NotSyncedNotOk(node_status) == ~Ok(node_status)

\* line 41: `node_status.status_code != 200`
NotSynced(node_status) == node_status.status # 200

check_sync_status(config, errors, node_status) ==
    IF GetRaises(config, node_status)
    THEN Raised(errors, GetException(config, node_status))
    ELSE IF NotSynced(node_status)
    THEN Returned(Append(errors, Problem("not_synced",
            "Lighthouse not synced: " \o ToString(node_status.status))))
    ELSE IF node_status.body # "json"
    THEN Raised(errors, JsonException(node_status, "'data'"))
    ELSE IF config.sync_tolerance = Missing
    THEN Raised(errors, Exc("KeyError", "'sync_tolerance'"))
    ELSE LET status == node_status.data
             sync_tolerance == config.sync_tolerance
             sync_distance == status.sync_distance
         IN  IF status.is_syncing
             THEN Returned(Append(errors, Problem("syncing",
                    "Lighthouse syncing: " \o DistanceStr(sync_distance)
                        \o " slots from head")))
             ELSE IF DistanceCompareRaises(sync_distance)
             THEN Raised(errors, Exc("TypeError",
                    "'>' not supported between instances of 'int' and 'str'"))
             ELSE IF DistanceGreater(sync_distance, sync_tolerance)
             THEN Returned(Append(errors, Problem("syncing",
                    "Lighthouse syncing: " \o DistanceStr(sync_distance)
                        \o " slots from head")))
             ELSE IF status.is_optimistic
             THEN Returned(Append(errors, Problem("optimistic",
                    "Lighthouse synced optimistically")))
             ELSE IF status.el_offline
             THEN Returned(Append(errors, Problem("el_offline",
                    "Execution node is offline or erroring")))
             ELSE Returned(errors)

\* int(config["lighthouse"][key]) raises: the key is absent, or no numeral
IntRaises(s) == s = Missing \/ ~IsNumeral(s)

IntException(s, key) ==
    IF s = Missing THEN Exc("KeyError", key)
    ELSE Exc("ValueError", "invalid literal for int() with base 10: '" \o s \o "'")

\* a comparison that flags the boundaries too
BadPeerCountExclusive(p, min_peer_count, max_peer_count) ==
    p <= min_peer_count \/ p >= max_peer_count

\* `peer_count < min_peer_count or peer_count > max_peer_count`
BadPeerCount(p, min_peer_count, max_peer_count) ==
    p < min_peer_count \/ p > max_peer_count

\* check_peer_count: the else branch reads `lh_health`, a name that is
\* neither a local of this function nor a global of the module
check_peer_count(config, errors, peer_count) ==
    IF GetRaises(config, peer_count)
    THEN Raised(errors, GetException(config, peer_count))
    ELSE IF ~Ok(peer_count)
    THEN Raised(errors, Exc("NameError", "name 'lh_health' is not defined"))
    ELSE IF peer_count.body # "json"
    THEN Raised(errors, JsonException(peer_count, "'connected'"))
    ELSE IF IntRaises(config.min_peer_count)
    THEN Raised(errors, IntException(config.min_peer_count, "'min_peer_count'"))
    ELSE IF IntRaises(config.max_peer_count)
    THEN Raised(errors, IntException(config.max_peer_count, "'max_peer_count'"))
    ELSE IF BadPeerCount(peer_count.data, ParseInt(config.min_peer_count),
                         ParseInt(config.max_peer_count))
    THEN Returned(Append(errors, Problem("peer_count",
            "Bad peer count: " \o ToString(peer_count.data))))
    ELSE Returned(errors)

(* ------------------------------ dispatch ------------------------------- *)

RECURSIVE BulletsReversed(_)
\* a loop that puts each new line in front: message = f"- {error}\n" + message
BulletsReversed(errs) ==
    IF errs = <<>> THEN ""
    ELSE BulletsReversed(Tail(errs)) \o "- " \o Head(errs).text \o "\n"

RECURSIVE Bullets(_)
\* for error in errors: message += f"- {error}\n"
Bullets(errs) ==
    IF errs = <<>> THEN ""
    ELSE "- " \o Head(errs).text \o "\n" \o Bullets(Tail(errs))

\* the message main() builds from a non-empty `errors`
Message(errs) == "Trouble in paradise:\n\n" \o Bullets(errs)

\* a test that takes one problem for none: `len(errors) > 1`
VerdictOverOne(errs) == IF Len(errs) > 1 THEN "BAD" ELSE "OK"

\* lines 93-94 and 100-101: what the cycle prints about its report
Verdict(errs) == IF Len(errs) > 0 THEN "BAD" ELSE "OK"

\* a list created once, before the loop, and never emptied
FreshErrorsKept(old) == old

\* line 86: `errors = []` at the top of every cycle, whatever the list held
FreshErrors(old) == <<>>

\* get_bot(config): config["telegram"]["api_token"] raises when the key is absent
GetBotRaises(config) == config.api_token = Missing

GetBotException(config) == Exc("KeyError", "'api_token'")

\* line 99: `await bot.send_message(...)` stands in no try block, so a send
\* that raises leaves main()
SendOutcome(delivered) ==
    IF delivered THEN [pc |-> "sleep", exc |-> NoExc]
    ELSE [pc |-> "crashed", exc |-> Exc("NetworkError", "send_message failed")]

\* a handler written `except ValueError`
MainCatchesValueError(e) == e.type \in {"ValueError", "JSONDecodeError"}

\* the `except Exception` of main(), around check_for_errors
MainCatches(e) == CatchesException(e)

\* a supervisor written `except KeyError`
SupervisorCatchesKeyError(e) == e.type = "KeyError"

\* the `except Exception` of the supervisor loop, around asyncio.run(main())
SupervisorCatches(e) == CatchesException(e)

\* a check_for_errors that lost its second call
NextCheckSkipsSync(check) == IF check = "health" THEN "peer" ELSE "dispatch"

\* check_for_errors: the check that follows `check` when it returns
NextCheck(check) ==
    IF check = "health" THEN "sync"
    ELSE IF check = "sync" THEN "peer"
    ELSE "dispatch"

(* ------------------------------- state --------------------------------- *)

VARIABLES
    pc,          \* where control is: boot, cycle, health, sync, peer, except,
                 \* dispatch, sleep, crashed, exited
    env,         \* "faulty": anything may fail; "healthy": nothing does
    config,      \* main()'s config
    errors,      \* main()'s errors
    lh_health,   \* the health response of this cycle
    node_status, \* the sync-status response of this cycle
    peer_count,  \* the peer-count response of this cycle
    called,      \* the checks called in this cycle, in order
    exc,         \* the exception in flight
    sent,        \* the send_message calls of this cycle
    printed,     \* the lines main() printed in this cycle
    slept,       \* the argument of the last time.sleep since the cycle began
    logged,      \* what the supervisor printed before this run of main()
    restarts     \* how often the supervisor restarted main(), saturating

vars == <<pc, env, config, errors, lh_health, node_status, peer_count, called,
          exc, sent, printed, slept, logged, restarts>>

frame == <<errors, lh_health, node_status, peer_count, called, sent, printed>>

Init ==
    /\ pc = "boot"
    /\ env = "faulty"
    /\ config = NoConfig
    /\ errors = <<>>
    /\ lh_health = NoHealth
    /\ node_status = NoSync
    /\ peer_count = NoPeers
    /\ called = <<>>
    /\ exc = NoExc
    /\ sent = <<>>
    /\ printed = <<>>
    /\ slept = 0
    /\ logged = NoExc
    /\ restarts = 0

\* the locals of a run of main() that has not begun a cycle
FreshFrame ==
    /\ errors' = <<>>
    /\ lh_health' = NoHealth
    /\ node_status' = NoSync
    /\ peer_count' = NoPeers
    /\ called' = <<>>
    /\ sent' = <<>>
    /\ printed' = <<>>

\* an exception leaves main()
Crash(e) == pc' = "crashed" /\ exc' = e

(* ------------------------------ actions -------------------------------- *)

\* the environment stops failing: from now on config.ini is well-formed, the
\* node is healthy and Telegram accepts the message
StopFaults ==
    /\ env = "faulty"
    /\ env' = "healthy"
    /\ UNCHANGED <<pc, config, frame, exc, slept, logged, restarts>>

\* asyncio.run(main()), lines 79-82: load_config() and the token check
RunMain ==
    /\ pc = "boot"
    /\ \E c \in (IF env = "healthy" THEN GoodConfigs ELSE Configs) :
          /\ config' = c
          /\ IF c.api_token = Missing
             THEN Crash(Exc("KeyError", "'api_token'"))
             ELSE IF StartsWithQuote(c.api_token)
             THEN Crash(Exc("Exception", "Telgram API token has quotes, remove them"))
             ELSE pc' = "cycle" /\ exc' = NoExc
    /\ FreshFrame
    /\ slept' = 0
    /\ logged' = NoExc
    /\ UNCHANGED <<env, restarts>>

\* lines 85-86: the top of `while True`
CycleStart ==
    /\ pc = "cycle"
    /\ pc' = "health"
    /\ printed' = <<"Checking node health">>
    /\ errors' = FreshErrors(errors)
    /\ lh_health' = NoHealth
    /\ node_status' = NoSync
    /\ peer_count' = NoPeers
    /\ called' = <<>>
    /\ sent' = <<>>
    /\ slept' = 0
    /\ UNCHANGED <<env, config, exc, logged, restarts>>

\* what a check's return or raise does to main(): lines 74-76 and 88-90
AfterCheck(check, res) ==
    /\ called' = Append(called, check)
    /\ errors' = res.errors
    /\ IF res.raised = NoExc
       THEN pc' = NextCheck(check) /\ exc' = NoExc
       ELSE pc' = "except" /\ exc' = res.raised

CheckHealth ==
    /\ pc = "health"
    /\ \E r \in (IF env = "healthy" THEN HealthyHealth ELSE HealthResponses) :
          /\ lh_health' = IF config.endpoint = Missing THEN NoHealth ELSE r
          /\ AfterCheck("health", check_lighthouse_health(config, errors, r))
    /\ UNCHANGED <<env, config, node_status, peer_count, sent, printed, slept, logged,
                   restarts>>

CheckSync ==
    /\ pc = "sync"
    /\ \E r \in (IF env = "healthy" THEN HealthySync ELSE SyncResponses) :
          /\ node_status' = IF config.endpoint = Missing THEN NoSync ELSE r
          /\ AfterCheck("sync", check_sync_status(config, errors, r))
    /\ UNCHANGED <<env, config, lh_health, peer_count, sent, printed, slept, logged,
                   restarts>>

CheckPeers ==
    /\ pc = "peer"
    /\ \E r \in (IF env = "healthy" THEN HealthyPeers ELSE PeerResponses) :
          /\ peer_count' = IF config.endpoint = Missing THEN NoPeers ELSE r
          /\ AfterCheck("peer", check_peer_count(config, errors, r))
    /\ UNCHANGED <<env, config, lh_health, node_status, sent, printed, slept, logged,
                   restarts>>

\* lines 90-91: the handler around check_for_errors
HandleCheckError ==
    /\ pc = "except"
    /\ IF MainCatches(exc)
       THEN /\ errors' = Append(errors,
                    Problem("heartbeat", "Heartbeat error: " \o exc.msg))
            /\ pc' = "dispatch"
            /\ exc' = NoExc
       ELSE Crash(exc) /\ UNCHANGED errors
    /\ UNCHANGED <<env, config, lh_health, node_status, peer_count, called,
                   sent, printed, slept, logged, restarts>>

\* lines 93-101: report and send
Dispatch ==
    /\ pc = "dispatch"
    /\ printed' = Append(printed, Verdict(errors))
    /\ IF Verdict(errors) = "BAD"
       THEN IF GetBotRaises(config)
            THEN Crash(GetBotException(config)) /\ UNCHANGED sent
            ELSE IF config.chat_id = Missing
            THEN Crash(Exc("KeyError", "'chat_id'")) /\ UNCHANGED sent
            ELSE \E delivered \in (IF env = "healthy" THEN {TRUE} ELSE BOOLEAN) :
                    /\ sent' = Append(sent,
                          [token |-> config.api_token, chat_id |-> config.chat_id,
                           text |-> Message(errors), delivered |-> delivered])
                    /\ pc' = SendOutcome(delivered).pc
                    /\ exc' = SendOutcome(delivered).exc
       ELSE pc' = "sleep" /\ exc' = NoExc /\ UNCHANGED sent
    /\ UNCHANGED <<env, config, errors, lh_health, node_status, peer_count,
                   called, slept, logged, restarts>>

\* line 103: time.sleep(int(config["alertbot"]["poll_interval_seconds"]))
Sleep ==
    /\ pc = "sleep"
    /\ IF IntRaises(config.poll_interval_seconds)
       THEN /\ Crash(IntException(config.poll_interval_seconds,
                                  "'poll_interval_seconds'"))
            /\ UNCHANGED slept
       ELSE /\ slept' = ParseInt(config.poll_interval_seconds)
            /\ pc' = "cycle"
            /\ exc' = NoExc
    /\ UNCHANGED <<env, config, errors, lh_health, node_status, peer_count,
                   called, sent, printed, logged, restarts>>

\* lines 109-112: the supervisor prints the exception, sleeps and loops
SupervisorCatch ==
    /\ pc = "crashed"
    /\ IF SupervisorCatches(exc)
       THEN /\ logged' = exc
            /\ slept' = BackoffSeconds
            /\ restarts' = IF restarts < MaxRestarts THEN restarts + 1 ELSE restarts
            /\ pc' = "boot"
            /\ exc' = NoExc
            /\ config' = NoConfig
            /\ FreshFrame
       ELSE /\ pc' = "exited"
            /\ UNCHANGED <<config, frame, exc, slept, logged, restarts>>
    /\ UNCHANGED env

Next ==
    \/ StopFaults
    \/ RunMain
    \/ CycleStart
    \/ CheckHealth
    \/ CheckSync
    \/ CheckPeers
    \/ HandleCheckError
    \/ Dispatch
    \/ Sleep
    \/ SupervisorCatch

Spec == Init /\ [][Next]_vars

\* the interpreter runs the next statement; the environment need not heal
Step ==
    \/ RunMain
    \/ CycleStart
    \/ CheckHealth
    \/ CheckSync
    \/ CheckPeers
    \/ HandleCheckError
    \/ Dispatch
    \/ Sleep
    \/ SupervisorCatch

LiveSpec == Init /\ [][Next]_vars /\ WF_vars(Step)

(* ------------------------- vocabulary of the claims -------------------- *)

RECURSIVE Count(_, _)
\* how many entries of errs were built by the statement `kind`
Count(errs, kind) ==
    IF errs = <<>> THEN 0
    ELSE (IF Head(errs).kind = kind THEN 1 ELSE 0) + Count(Tail(errs), kind)

Texts(errs) == {errs[i].text : i \in 1..Len(errs)}

SyncKinds == {"syncing", "optimistic", "el_offline"}

RECURSIVE CountIn(_, _)
CountIn(errs, kinds) ==
    IF errs = <<>> THEN 0
    ELSE (IF Head(errs).kind \in kinds THEN 1 ELSE 0) + CountIn(Tail(errs), kinds)

AllChecks == <<"health", "sync", "peer">>

\* the aggregation of this cycle is over: `errors` is the cycle's report
ReportBuilt == pc \in {"dispatch", "sleep"}

\* the dispatch step of this cycle is over, normally or by an exception
Dispatched ==
    \/ pc = "sleep"
    \/ pc = "cycle" /\ called # <<>>
    \/ pc = "crashed" /\ called # <<>>

\* the health request of this cycle was answered with a success status and
\* the documented body
HealthSucceeded == lh_health.status # 0 /\ Ok(lh_health) /\ lh_health.body = "json"

(* -------------------------------- C1 ----------------------------------- *)

\* C1: in every poll cycle send_message is called exactly once if the
\* cycle's problem list is non-empty and not at all if it is empty; never
\* more than once.
C1_OneSendPerProblemCycle ==
    /\ Len(sent) <= 1
    /\ ~Dispatched /\ pc # "crashed" => Len(sent) = 0
    /\ Dispatched => Len(sent) = IF Len(errors) > 0 THEN 1 ELSE 0

(* -------------------------------- C2 ----------------------------------- *)

\* C2: when the health call succeeds, the cycle's report holds exactly one
\* "Memory usage at <value>%" if sys_virt_mem_percent exceeds 95.0, and no
\* memory problem otherwise.
C2_MemoryProblemInReport ==
    ReportBuilt /\ HealthSucceeded =>
        IF lh_health.data > MemThreshold
        THEN /\ Count(errors, "memory") = 1
             /\ ("Memory usage at " \o FloatStr(lh_health.data) \o "%") \in Texts(errors)
        ELSE Count(errors, "memory") = 0

(* -------------------------------- C3 ----------------------------------- *)

\* a check of this cycle raised and the handler of main() has not yet run
CheckRaised == pc = "except"

\* C3: an exception raised by a check does not leave the aggregation step of
\* main(): a step out of a check goes to the next check, to the handler or to
\* the dispatch, never out of main(); the handler appends "Heartbeat error:
\* <cause>" and goes on to the dispatch, the report then holds exactly one
\* such entry; and a dispatch that raises nothing goes on to the sleep.
C3_CheckExceptionBecomesOneHeartbeat ==
    [][/\ pc \in {"health", "sync", "peer"} /\ pc' # pc
          => /\ pc' \in {"sync", "peer", "dispatch", "except"}
             /\ (exc' # NoExc <=> pc' = "except")
       /\ CheckRaised /\ pc' # pc
          => /\ pc' = "dispatch"
             /\ exc' = NoExc
             /\ errors' = Append(errors,
                    Problem("heartbeat", "Heartbeat error: " \o exc.msg))
             /\ Count(errors', "heartbeat") = 1
       /\ pc = "dispatch" /\ pc' # pc /\ exc' = NoExc => pc' = "sleep"
      ]_vars

\* a peer-count check that raised after two checks returned, and its
\* heartbeat entry, ready for dispatch
C3_Witness ==
    /\ pc = "dispatch"
    /\ called = AllChecks
    /\ Count(errors, "heartbeat") = 1
    /\ Len(errors) = 2

(* -------------------------------- C4 ----------------------------------- *)

\* C4: the process has no terminal state: whatever raised inside the poll
\* loop, the supervisor never leaves its loop, a statement of the program is
\* always ready to run, and a crashed main() is restarted however many
\* restarts came before.
C4_NeverExits ==
    /\ pc # "exited"
    /\ ENABLED Step
    /\ pc = "crashed" => CatchesException(exc) /\ ENABLED SupervisorCatch

\* a bad poll-interval value crashed main() again after the restart counter
\* had saturated, and the supervisor restarted it once more
C4_Witness ==
    /\ restarts = MaxRestarts
    /\ pc = "boot"
    /\ logged.type = "ValueError"

(* -------------------------------- C5 ----------------------------------- *)

\* the step calls send_message and the call raises
SendRaises == Len(sent') = Len(sent) + 1 /\ ~sent'[Len(sent')].delivered

\* main() crashed because send_message raised
CrashedBySend == pc = "crashed" /\ exc.type = "NetworkError"

\* a cycle found nothing, sent nothing and slept the poll interval
CleanCycleDone ==
    /\ pc = "cycle"
    /\ called = AllChecks
    /\ errors = <<>>
    /\ sent = <<>>
    /\ slept = ParseInt(config.poll_interval_seconds)

\* the crash and the restart of C5: a send that raises crashes the poll loop
\* without the cycle's sleep; the supervisor then logs the exception, sleeps
\* the 10-second back-off and starts main() from scratch; main() reads the
\* configuration anew and checks the token before the first check
CrashAndRestart ==
    [][/\ SendRaises => pc' = "crashed" /\ slept' = 0 /\ exc'.type = "NetworkError"
       /\ CrashedBySend /\ pc' # pc
          => /\ pc' = "boot"
             /\ logged' = exc
             /\ slept' = BackoffSeconds
             /\ config' = NoConfig
             /\ errors' = <<>> /\ called' = <<>> /\ sent' = <<>>
       /\ pc = "boot" /\ pc' # pc
          => /\ config' \in Configs
             /\ called' = <<>>
             /\ pc' = "cycle" =>
                   config'.api_token # Missing /\ ~StartsWithQuote(config'.api_token)
             /\ pc' # "cycle" => pc' = "crashed"
      ]_vars

\* C5: a send that raises crashes the poll loop without the cycle's sleep,
\* the supervisor logs, backs off 10 seconds and restarts main() from scratch
\* (configuration re-read, token re-checked before the first check), and
\* once faults have stopped, a clean cycle eventually completes.
C5_SendFailureRestartsLoop ==
    /\ CrashAndRestart
    /\ (CrashedBySend /\ env = "healthy") ~> CleanCycleDone

(* -------------------------------- C6 ----------------------------------- *)

\* C6, as claimed: in every cycle all three checks are executed, also when an
\* earlier check raised.
C6_AllChecksAlwaysRun == ReportBuilt => called = AllChecks

\* C6, amended: the checks run in the order health, sync-status, peer-count
\* until one raises; a check that raises is the last one called in its cycle
\* and leaves the cycle's one heartbeat entry; when no check raises, all
\* three are executed.
C6_ChecksRunUntilOneRaises ==
    /\ ReportBuilt =>
          /\ called \in {SubSeq(AllChecks, 1, n) : n \in 1..3}
          /\ Count(errors, "heartbeat") = 0 => called = AllChecks
          /\ called # AllChecks => Count(errors, "heartbeat") = 1
    /\ CheckRaised => called \in {SubSeq(AllChecks, 1, n) : n \in 1..3}
    /\ pc \in {"sync", "peer"} => Count(errors, "heartbeat") = 0 /\ exc = NoExc
    /\ pc = "sync" => called = <<"health">>
    /\ pc = "peer" => called = <<"health", "sync">>

\* the health check raised: the report is built and neither the sync-status
\* nor the peer-count check was called
C6_Witness ==
    /\ pc = "dispatch"
    /\ called = <<"health">>
    /\ Count(errors, "heartbeat") = 1

(* -------------------------------- C7 ----------------------------------- *)

\* the peer-count request of this cycle was answered with an error status
PeerCountFailed == peer_count.status # 0 /\ ~Ok(peer_count)

\* C7: when the peer-count endpoint answers with a non-success status, the
\* peer-count check raises nothing and the report holds an endpoint-error
\* problem naming the peer-count path and that status, beside whatever the
\* other two checks reported.
C7_PeerCountErrorReported ==
    PeerCountFailed /\ Len(called) = 3 =>
        /\ ~CheckRaised
        /\ exc.type # "NameError"
        /\ ReportBuilt =>
              /\ Count(errors, "heartbeat") = 0
              /\ ("Error from /eth/v1/node/peer_count: " \o ToString(peer_count.status))
                    \in Texts(errors)

(* -------------------------------- C8 ----------------------------------- *)

\* the peer-count check of this cycle got a successful response with a count,
\* and the configuration holds numerals for both bounds
PeerCountSucceeded ==
    /\ Len(called) = 3
    /\ peer_count.status # 0 /\ Ok(peer_count) /\ peer_count.body = "json"
    /\ IsNumeral(config.min_peer_count) /\ IsNumeral(config.max_peer_count)

\* C8: on a successful peer-count response with count p the check raises
\* nothing and adds exactly one "Bad peer count: <p>" iff p < min or p > max;
\* for min <= p <= max it adds nothing.
C8_PeerCountFlaggedOutsideRange ==
    PeerCountSucceeded =>
        LET p == peer_count.data
            lo == ParseInt(config.min_peer_count)
            hi == ParseInt(config.max_peer_count)
        IN  /\ ~CheckRaised
            /\ Count(errors, "heartbeat") = 0
            /\ IF p < lo \/ p > hi
               THEN /\ Count(errors, "peer_count") = 1
                    /\ errors[Len(errors)] =
                          Problem("peer_count", "Bad peer count: " \o ToString(p))
               ELSE Count(errors, "peer_count") = 0

\* a count on the lower boundary went unflagged
C8_Witness ==
    /\ PeerCountSucceeded
    /\ pc = "dispatch"
    /\ peer_count.data = ParseInt(config.min_peer_count)
    /\ peer_count.data < ParseInt(config.max_peer_count)
    /\ Count(errors, "peer_count") = 0

(* -------------------------------- C9 ----------------------------------- *)

\* the sync-status request of this cycle was answered 200 with the documented
\* body, and the configuration holds a tolerance
SyncStatusParsed ==
    /\ node_status.status = 200 /\ node_status.body = "json"
    /\ IsNumeral(config.sync_tolerance)

\* the sync distance the node reported exceeds the configured tolerance
DistanceExceeded ==
    node_status.data.sync_distance.n > ParseInt(config.sync_tolerance)

\* C9: for every sync-status payload the check adds at most one sync problem,
\* and never one of lower priority while a condition of higher priority
\* holds: syncing or distance exceeded, then optimistic, then execution node
\* offline.
C9_SyncProblemByPriority ==
    SyncStatusParsed /\ (ReportBuilt \/ CheckRaised) =>
        LET d == node_status.data
        IN  /\ CountIn(errors, SyncKinds) <= 1
            /\ d.is_syncing \/ DistanceExceeded =>
                  CountIn(errors, {"optimistic", "el_offline"}) = 0
            /\ d.is_optimistic => Count(errors, "el_offline") = 0

(* -------------------------------- C10 ---------------------------------- *)

\* C10: for a 200 response with an integer sync_distance d and all three
\* flags false, the check adds the "syncing" problem iff d exceeds the
\* configured tolerance, and for d <= tolerance adds nothing and raises
\* nothing.
C10_IntegerDistanceAgainstTolerance ==
    /\ SyncStatusParsed
    /\ Len(called) >= 2
    /\ ~node_status.data.sync_distance.isStr
    /\ ~node_status.data.is_syncing
    /\ ~node_status.data.is_optimistic
    /\ ~node_status.data.el_offline
    => IF DistanceExceeded
       THEN Count(errors, "syncing") = 1
       ELSE /\ CountIn(errors, SyncKinds) = 0
            /\ ~(CheckRaised /\ Len(called) = 2)
            /\ ReportBuilt /\ Len(called) = 3 => Count(errors, "heartbeat") = 0

(* -------------------------------- C11 ---------------------------------- *)

\* the descriptive error of line 82
QuotesError == Exc("Exception", "Telgram API token has quotes, remove them")

EmittedBeforeRaise ==
    (IF Len(called) >= 2 THEN HealthAppends(lh_health) ELSE <<>>)
    \o (IF Len(called) = 3
        THEN check_sync_status(config, <<>>, node_status).errors ELSE <<>>)

\* C12: when a check raises, every problem emitted by a check that completed
\* earlier in the cycle is in the report, before the single heartbeat entry.
C12_CollectedProblemsSurviveException ==
    ReportBuilt /\ Count(errors, "heartbeat") = 1 =>
        /\ errors[Len(errors)].kind = "heartbeat"
        /\ SubSeq(errors, 1, Len(errors) - 1) = EmittedBeforeRaise

(* -------------------------------- C13 ---------------------------------- *)

\* the health request of this cycle was answered with a status outside 2xx
HealthFailed == lh_health.status # 0 /\ lh_health.status \notin 200..299

\* C13: when the health endpoint answers with a non-2xx status, the cycle's
\* report holds "Error from /lighthouse/health: <status>", so the cycle is
\* reported as BAD and an alert is sent.
C13_HealthErrorReported ==
    HealthFailed =>
        /\ ReportBuilt =>
              ("Error from /lighthouse/health: " \o ToString(lh_health.status))
                 \in Texts(errors)
        /\ Dispatched => printed = <<"Checking node health", "BAD">>

(* -------------------------------- C14 ---------------------------------- *)

\* a request of this cycle failed in the transport
TransportFailed ==
    lh_health.transport \/ node_status.transport \/ peer_count.transport

\* C14: a transport failure of an endpoint call is a value to the owning
\* check: the check raises nothing and reports its own endpoint-error
\* problem, so the failure never reaches the handler of main() and the
\* remaining checks of the cycle run.
C14_TransportFailureIsAValue ==
    TransportFailed =>
        /\ ~CheckRaised
        /\ exc.type # "ConnectionError"
        /\ ReportBuilt =>
              /\ called = AllChecks
              /\ \A i \in 1..Len(errors) :
                    errors[i].text # "Heartbeat error: connection failed"

(* -------------------------------- C15 ---------------------------------- *)

\* the sync-status request of this cycle was answered
SyncAnswered == Len(called) >= 2 /\ node_status.status # 0

\* the sync-status check of this cycle raised
SyncRaised == Len(called) = 2 /\ pc # "peer"

C16_CyclePrintsOneVerdict ==
    /\ pc \in {"health", "sync", "peer", "except", "dispatch"} =>
          printed = <<"Checking node health">> /\ sent = <<>> /\ slept = 0
    /\ Dispatched =>
          printed = <<"Checking node health",
                      IF Len(errors) > 0 THEN "BAD" ELSE "OK">>
    /\ sent # <<>> => Len(printed) = 2 /\ printed[2] = "BAD"
    /\ pc \in {"boot", "exited"} \/ (pc \in {"cycle", "crashed"} /\ called = <<>>)
          => printed = <<>>

\* the send of a cycle failed after the cycle had printed BAD
C16_Witness ==
    /\ CrashedBySend
    /\ printed = <<"Checking node health", "BAD">>
    /\ Len(errors) = 1

(* -------------------------------- C17 ---------------------------------- *)

HeartbeatOf(e) == Problem("heartbeat", "Heartbeat error: " \o e.msg)

\* the report that the answers of this cycle alone give, from an empty list
CycleReport ==
    LET h == check_lighthouse_health(config, <<>>, lh_health)
        s == check_sync_status(config, h.errors, node_status)
        p == check_peer_count(config, s.errors, peer_count)
    IN  IF h.raised # NoExc THEN Append(h.errors, HeartbeatOf(h.raised))
        ELSE IF s.raised # NoExc THEN Append(s.errors, HeartbeatOf(s.raised))
        ELSE IF p.raised # NoExc THEN Append(p.errors, HeartbeatOf(p.raised))
        ELSE p.errors

RECURSIVE Lines(_)
\* one "- " line per problem, in the order of the list
Lines(errs) ==
    IF errs = <<>> THEN ""
    ELSE "- " \o errs[1].text \o "\n" \o Lines(SubSeq(errs, 2, Len(errs)))

\* the header and one line per problem
ExpectedText(errs) == "Trouble in paradise:\n\n" \o Lines(errs)

\* C17: the report is empty at the start of every cycle and is never
\* accumulated: the report, and the message sent, hold exactly the problems
\* the answers of that same cycle give, in any cycle of any run of main().
C17_ReportOfThisCycleOnly ==
    /\ pc \in {"boot", "cycle", "health"} /\ called = <<>> => errors = <<>>
    /\ ReportBuilt \/ Dispatched => errors = CycleReport
    /\ \A i \in 1..Len(sent) : sent[i].text = ExpectedText(CycleReport)

\* a cycle after a restart sent a message with the one problem it found
C17_Witness ==
    /\ restarts = MaxRestarts
    /\ pc = "sleep"
    /\ Len(sent) = 1
    /\ errors = <<Problem("peer_count", "Bad peer count: 0")>>

(* -------------------------------- C18 ---------------------------------- *)

\* the place of the check (or handler) that builds a problem of this kind
Rank(kind) ==
    IF kind \in {"memory", "health_status"} THEN 1
    ELSE IF kind \in SyncKinds \cup {"not_synced"} THEN 2
    ELSE IF kind = "peer_count" THEN 3
    ELSE 4

\* C18: the checks of a cycle run one after the other in the order health,
\* sync-status, peer-count; the message sent is the header followed by one
\* "- " line per problem of the report in that order, a heartbeat entry last;
\* and a cycle begins only after main() started or the cycle before slept its
\* poll interval.
C18_OrderedChecksAndMessage ==
    /\ [](/\ called \in {SubSeq(AllChecks, 1, n) : n \in 0..3}
          /\ \A i, j \in 1..Len(errors) :
                i < j => Rank(errors[i].kind) <= Rank(errors[j].kind)
          /\ \A i \in 1..Len(errors) :
                errors[i].kind = "heartbeat" => i = Len(errors)
          /\ \A i \in 1..Len(sent) : sent[i].text = ExpectedText(errors))
    /\ [][/\ pc' = "health" /\ pc # "health" => pc = "cycle"
          /\ pc' = "cycle" /\ pc # "cycle" =>
                \/ pc = "boot"
                \/ pc = "sleep" /\ slept' = ParseInt(config.poll_interval_seconds)
          /\ pc = "health" /\ pc' # pc => called' = <<"health">>
          /\ pc = "sync" /\ pc' # pc => called' = <<"health", "sync">>
          /\ pc = "peer" /\ pc' # pc => called' = AllChecks
         ]_vars

\* a message with a sync-status line before a peer-count line
C18_Witness ==
    /\ Len(sent) = 1
    /\ Len(errors) = 2
    /\ errors[1].kind = "syncing"
    /\ errors[2].kind = "peer_count"

====
